---- MODULE Spec2Model ----
(***************************************************************************)
(* State machine of useCommandPaletteState                                 *)
(* (src/packages/@react-aria/datepicker/src/useDatePickerGroup.ts,         *)
(* lines 150-318): the open/closed lifecycle of the menu, the query text,  *)
(* the filtered collection and the commit / revert protocol.               *)
(*                                                                         *)
(* One action is one call of a method of the returned state object         *)
(* together with every hook call it makes.  The re-render that follows a   *)
(* state change and the passive effect of lines 228-233 are the step       *)
(* RunEffect, which React runs before the next event is handled.           *)
(***************************************************************************)
EXTENDS Integers, Sequences, FiniteSets, TLC

VARIABLES
  props,            \* the options the hook was called with (fixed per behaviour)
  isOpen,           \* triggerState.isOpen
  showAllItems,     \* useState(false), line 155
  isFocused,        \* useState(false), line 156
  inputValue,       \* useControlledState(props.inputValue, ...), line 157
  selectedKey,      \* useSingleSelectListState(...).selectedKey, line 173
  focusedKey,       \* selectionManager.focusedKey
  menuOpenTrigger,  \* useRef('focus'), line 189
  lastValue,        \* useRef(inputValue), line 222
  calls,            \* the calls made by the last method call, in order
  thrown,           \* the last method call raised a TypeError
  lastOp,           \* the last method called and its trigger argument
  pc                \* "idle", or "effect" while a render's effect is pending

vars == <<props, isOpen, showAllItems, isFocused, inputValue, selectedKey,
          focusedKey, menuOpenTrigger, lastValue, calls, thrown, lastOp, pc>>

-----------------------------------------------------------------------------
(* Values *)

Null == "null"
Undefined == "undefined"

Keys == {"k1", "k2"}
NullableKeys == Keys \cup {Null}

\* MenuTriggerAction, plus the omitted optional argument
Triggers == {"focus", "input", "manual", Undefined}
\* props.menuTrigger, line 153; the hook only compares it with 'focus', so
\* 'manual' behaves as 'input'
MenuTriggers == {"focus", "input"}

Queries == {"", "a", "x"}

Leaf(k, t) ==
  [type |-> "item", key |-> k, textValue |-> t,
   hasChildNodes |-> FALSE, childNodes |-> <<>>]

Section(k, kids) ==
  [type |-> "section", key |-> k, textValue |-> "",
   hasChildNodes |-> Len(kids) > 0, childNodes |-> kids]

EmptyItems == <<>>
SectionedItems ==
  <<Section("s1", <<Leaf("k1", "ab")>>), Section("s2", <<>>), Leaf("k2", "b")>>

Collections == {EmptyItems, SectionedItems}

-----------------------------------------------------------------------------
(* The filter predicates a caller may inject as defaultFilter *)

Contains(textValue, query) ==
  \E i \in 0..(Len(textValue) - Len(query)) :
    SubSeq(textValue, i + 1, i + Len(query)) = query

StartsWith(textValue, query) ==
  /\ Len(query) <= Len(textValue)
  /\ SubSeq(textValue, 1, Len(query)) = query

\* the values of props.defaultFilter in the controller's specification
Filters == {Undefined, "contains"}

\* the predicates of the filter specification: two that match every text on
\* the empty query, one that matches everything, two that do not match on
\* the empty query
FilterFns == {"contains", "startsWith", "always", "equals", "never"}

filter(name, textValue, query) ==
  CASE name = "contains" -> Contains(textValue, query)
    [] name = "startsWith" -> StartsWith(textValue, query)
    [] name = "always" -> TRUE
    [] name = "equals" -> textValue = query
    [] OTHER -> FALSE

-----------------------------------------------------------------------------
(* Collections: lines 179-186 and 301-318 *)

\* filterNodes that keeps a section whose children were all filtered out
RECURSIVE filterNodes_KeepsEmptiedSections(_, _, _)
filterNodes_KeepsEmptiedSections(nodes, value, filterFn) ==
  IF Len(nodes) = 0 THEN <<>>
  ELSE
    LET node == Head(nodes)
        rest == filterNodes_KeepsEmptiedSections(Tail(nodes), value, filterFn)
    IN IF node.type = "section" /\ node.hasChildNodes
       THEN LET filtered ==
                  filterNodes_KeepsEmptiedSections(node.childNodes, value,
                                                   filterFn)
            IN <<[node EXCEPT !.childNodes = filtered]>> \o rest
       ELSE IF node.type # "section" /\ filter(filterFn, node.textValue, value)
            THEN <<node>> \o rest
            ELSE rest

\* filterNodes that filters the top level only and drops every section
RECURSIVE filterNodes_DropsSections(_, _, _)
filterNodes_DropsSections(nodes, value, filterFn) ==
  IF Len(nodes) = 0 THEN <<>>
  ELSE
    LET node == Head(nodes)
        rest == filterNodes_DropsSections(Tail(nodes), value, filterFn)
    IN IF node.type # "section" /\ filter(filterFn, node.textValue, value)
       THEN <<node>> \o rest
       ELSE rest

\* filterNodes, lines 305-318.  textValue is tested for items only; a section
\* is kept when it has child nodes and at least one of them survives.
RECURSIVE filterNodes(_, _, _)
filterNodes(nodes, value, filterFn) ==
  IF Len(nodes) = 0 THEN <<>>
  ELSE
    LET node == Head(nodes)
        rest == filterNodes(Tail(nodes), value, filterFn)
    IN IF node.type = "section" /\ node.hasChildNodes
       THEN LET filtered == filterNodes(node.childNodes, value, filterFn)
            IN IF Len(filtered) > 0
               THEN <<[node EXCEPT !.childNodes = filtered]>> \o rest
               ELSE rest
       ELSE IF node.type # "section" /\ filter(filterFn, node.textValue, value)
            THEN <<node>> \o rest
            ELSE rest

\* filterCollection, lines 301-303
filterCollection(collection, value, filterFn) ==
  filterNodes(collection, value, filterFn)

\* Collection.size of ListCollection: every node of the tree has a key
RECURSIVE size(_)
size(nodes) ==
  IF Len(nodes) = 0 THEN 0
  ELSE 1 + size(Head(nodes).childNodes) + size(Tail(nodes))

\* collection.getItem(key)?.textValue ?? '', line 246
RECURSIVE itemTextValue(_, _)
itemTextValue(nodes, key) ==
  IF Len(nodes) = 0 THEN ""
  ELSE IF Head(nodes).key = key THEN Head(nodes).textValue
  ELSE LET inChildren == itemTextValue(Head(nodes).childNodes, key)
       IN IF inChildren # "" THEN inChildren
          ELSE itemTextValue(Tail(nodes), key)

\* the keys of the items (not the sections) of a collection
RECURSIVE itemKeys(_)
itemKeys(nodes) ==
  IF Len(nodes) = 0 THEN {}
  ELSE (IF Head(nodes).type = "item" THEN {Head(nodes).key} ELSE {})
       \cup itemKeys(Head(nodes).childNodes) \cup itemKeys(Tail(nodes))

\* line 180
originalCollection == props.collection

\* filteredCollection that filters controlled items as well
filteredCollectionOf_FiltersControlledItems(value) ==
  IF props.defaultFilter = Undefined
  THEN props.collection
  ELSE filterCollection(props.collection, value, props.defaultFilter)

\* lines 181-186: no default filter if items are controlled
filteredCollectionOf(value) ==
  IF props.itemsControlled \/ props.defaultFilter = Undefined
  THEN props.collection
  ELSE filterCollection(props.collection, value, props.defaultFilter)

filteredCollection == filteredCollectionOf(inputValue)

\* line 293: the collection the hook returns
visibleCollection ==
  IF showAllItems THEN originalCollection ELSE filteredCollection

-----------------------------------------------------------------------------
(* The state a method call works on.  A method reads the values of the     *)
(* render it was created in (the unprimed variables) and requests updates, *)
(* which are collected in a record and committed when the call returns.    *)

Cur ==
  [isOpen |-> isOpen, showAllItems |-> showAllItems, isFocused |-> isFocused,
   inputValue |-> inputValue, selectedKey |-> selectedKey,
   focusedKey |-> focusedKey, menuOpenTrigger |-> menuOpenTrigger,
   lastValue |-> lastValue, calls |-> <<>>, thrown |-> FALSE]

\* one entry of calls: a function of the hook (setSelectedKey,
\* onSelectionChange, resetInputValue, commitSelection, triggerState.open,
\* .close, .toggle) or an external hook (props.onSelectionChange,
\* props.onInputChange, props.onOpenChange) with its arguments
Call(fn, k, text, open, trigger) ==
  [fn |-> fn, key |-> k, text |-> text, open |-> open, trigger |-> trigger]

Internal(fn) == Call(fn, Null, "", FALSE, Undefined)

Called(s, c) == [s EXCEPT !.calls = Append(@, c)]

\* props.onInputChange(value); the hook is taken as supplied, its absence
\* only removes the entry
propsOnInputChange(s, value) ==
  Called(s, Call("props.onInputChange", Null, value, FALSE, Undefined))

\* setInputValue of useControlledState, lines 157-161: a controlled value is
\* never written, the change is only reported to the owner
setInputValue(s, value) ==
  IF value = s.inputValue THEN s
  ELSE IF props.inputValueControlled THEN propsOnInputChange(s, value)
  ELSE propsOnInputChange([s EXCEPT !.inputValue = value], value)

\* lines 190-194; props.onOpenChange is taken as supplied
onOpenChange(s, open) ==
  Called(s, Call("props.onOpenChange", Null, "", open,
                 IF open THEN s.menuOpenTrigger ELSE Undefined))

\* the open flag of useMenuTriggerState, line 196: isOpen is passed as
\* undefined, so the flag is always locally owned
setOpen(s, open) ==
  IF open = s.isOpen THEN s
  ELSE onOpenChange([s EXCEPT !.isOpen = open], open)

triggerStateOpen(s) == setOpen(Called(s, Internal("triggerState.open")), TRUE)

triggerStateClose(s) ==
  setOpen(Called(s, Internal("triggerState.close")), FALSE)

triggerStateToggle(s) ==
  setOpen(Called(s, Internal("triggerState.toggle")), ~s.isOpen)

\* lines 224-226
resetInputValue(s) ==
  setInputValue(Called(s, Internal("resetInputValue")), "")

\* props.onSelectionChange(key), when the hook is supplied
propsOnSelectionChange(s, k) ==
  Called(s, Call("props.onSelectionChange", k, "", FALSE, Undefined))

\* onSelectionChange that forgets to close the menu
onSelectionChange_NoClose(s, k) ==
  LET entered == Called(s, Call("onSelectionChange", k, "", FALSE, Undefined))
      notified == IF props.hasOnSelectionChange
                    THEN propsOnSelectionChange(entered, k)
                    ELSE entered
  IN resetInputValue(notified)

\* onSelectionChange that closes the menu before it resets the input value
onSelectionChange_ClosesFirst(s, k) ==
  LET entered == Called(s, Call("onSelectionChange", k, "", FALSE, Undefined))
      notified == IF props.hasOnSelectionChange
                    THEN propsOnSelectionChange(entered, k)
                    ELSE entered
  IN resetInputValue(triggerStateClose(notified))

\* lines 163-171
onSelectionChange(s, k) ==
  LET entered == Called(s, Call("onSelectionChange", k, "", FALSE, Undefined))
      notified == IF props.hasOnSelectionChange
                    THEN propsOnSelectionChange(entered, k)
                    ELSE entered
  IN triggerStateClose(resetInputValue(notified))

\* setSelectedKey of useSingleSelectListState, line 173: a controlled value,
\* reporting its changes to onSelectionChange of lines 163-171
setSelectedKey(s, k) ==
  LET requested ==
        Called(s, Call("setSelectedKey", k, "", FALSE, Undefined))
  IN IF k = s.selectedKey THEN requested
     ELSE IF props.selectedKeyControlled THEN onSelectionChange(requested, k)
     ELSE onSelectionChange([requested EXCEPT !.selectedKey = k], k)

\* selectionManager.select(key) in single selection mode: a selection of the
\* key already selected is reported as well
selectionManagerSelect(s, k) ==
  IF k = s.selectedKey THEN onSelectionChange(s, k)
  ELSE setSelectedKey(s, k)

\* line 198
displayAllItems(trigger) ==
  trigger = "manual" \/ (trigger = "focus" /\ props.menuTrigger = "focus")

\* open() without its guard
openAllowed_Always(trigger) == TRUE

\* line 202: the condition under which open() acts
openAllowed(trigger) ==
  \/ size(filteredCollection) > 0
  \/ (displayAllItems(trigger) /\ size(originalCollection) > 0)
  \/ props.itemsControlled

\* open() that shows all items whatever the trigger
open_ShowsAllForAnyTrigger(s, trigger) ==
  IF openAllowed(trigger)
  THEN LET shown == IF ~isOpen /\ ~props.itemsControlled
                    THEN [s EXCEPT !.showAllItems = TRUE]
                    ELSE s
       IN triggerStateOpen([shown EXCEPT !.menuOpenTrigger = trigger])
  ELSE s

\* open() that never shows all items
open_NoShowAll(s, trigger) ==
  IF openAllowed(trigger)
  THEN triggerStateOpen([s EXCEPT !.menuOpenTrigger = trigger])
  ELSE s

\* lines 197-211
open(s, trigger) ==
  IF openAllowed(trigger)
  THEN LET shown ==
             IF displayAllItems(trigger) /\ ~isOpen /\ ~props.itemsControlled
             THEN [s EXCEPT !.showAllItems = TRUE]
             ELSE s
       IN triggerStateOpen([shown EXCEPT !.menuOpenTrigger = trigger])
  ELSE s

\* toggle() that opens through open(), with its guard and its show-all
toggle_OpensThroughOpen(s, trigger) ==
  IF ~isOpen THEN open(s, trigger) ELSE triggerStateToggle(s)

\* toggle() that records its trigger while the menu is open as well
toggle_AlwaysRecords(s, trigger) ==
  triggerStateToggle([s EXCEPT !.menuOpenTrigger = trigger])

\* lines 213-220
toggle(s, trigger) ==
  LET recorded == IF ~isOpen THEN [s EXCEPT !.menuOpenTrigger = trigger]
                  ELSE s
  IN triggerStateToggle(recorded)

\* commitSelection that closes without resetting the input value
commitSelection_NoReset(s) ==
  LET entered == Called(s, Internal("commitSelection"))
  IN IF props.selectedKeyControlled /\ props.inputValueControlled
     THEN IF ~props.hasOnSelectionChange
          THEN [entered EXCEPT !.thrown = TRUE]
          ELSE LET notified == propsOnSelectionChange(entered, selectedKey)
                   itemText == itemTextValue(props.collection, selectedKey)
               IN triggerStateClose([notified EXCEPT !.lastValue = itemText])
     ELSE triggerStateClose(entered)

\* lines 240-254.  props.onSelectionChange is called unguarded in line 243:
\* without the hook the call raises a TypeError and nothing after it runs.
commitSelection(s) ==
  LET entered == Called(s, Internal("commitSelection"))
  IN IF props.selectedKeyControlled /\ props.inputValueControlled
     THEN IF ~props.hasOnSelectionChange
          THEN [entered EXCEPT !.thrown = TRUE]
          ELSE LET notified == propsOnSelectionChange(entered, selectedKey)
                   itemText == itemTextValue(props.collection, selectedKey)
               IN triggerStateClose([notified EXCEPT !.lastValue = itemText])
     ELSE triggerStateClose(resetInputValue(entered))

\* lines 235-238
revert(s) == commitSelection(s)

\* commit() that finalizes without ever selecting the focused key
commit_NeverSelects(s) == commitSelection(s)

\* commit() that reports the selection again when the focused key is the
\* selected key
commit_Reemits(s) ==
  IF isOpen /\ focusedKey # Null
  THEN IF selectedKey = focusedKey
       THEN onSelectionChange(s, focusedKey)
       ELSE setSelectedKey(s, focusedKey)
  ELSE commitSelection(s)

\* lines 256-269
commit(s) ==
  IF isOpen /\ focusedKey # Null
  THEN IF selectedKey = focusedKey
       THEN commitSelection(s)
       ELSE setSelectedKey(s, focusedKey)
  ELSE commitSelection(s)

\* lines 271-279
setFocused(s, focused) ==
  LET opened == IF focused /\ props.menuTrigger = "focus"
                THEN open(s, "focus")
                ELSE s
  IN [opened EXCEPT !.isFocused = focused]

\* the effect without its reset
resetFocusedKeyEffect_Skipped == focusedKey

\* lines 228-233: reset focused key when the menu closes
resetFocusedKeyEffect ==
  IF ~isOpen THEN Null ELSE focusedKey

-----------------------------------------------------------------------------
(* The state machine *)

Props ==
  [selectedKeyControlled : BOOLEAN,   \* props.selectedKey !== undefined
   inputValueControlled : BOOLEAN,    \* props.inputValue !== undefined
   itemsControlled : BOOLEAN,         \* props.items supplied
   hasOnSelectionChange : BOOLEAN,    \* props.onSelectionChange supplied
   menuTrigger : MenuTriggers,        \* line 153
   defaultFilter : Filters,           \* line 152
   collection : Collections]          \* props.items ?? props.defaultItems

Op(name, trigger) == [op |-> name, trigger |-> trigger]

\* the state after the first render and its effect, with no defaultInputValue,
\* defaultSelectedKey or defaultOpen given and controlled values starting
\* at '' and null
Init ==
  /\ props \in Props
  /\ isOpen = FALSE
  /\ showAllItems = FALSE
  /\ isFocused = FALSE
  /\ inputValue = ""
  /\ selectedKey = Null
  /\ focusedKey = Null
  /\ menuOpenTrigger = "focus"
  /\ lastValue = inputValue
  /\ calls = <<>>
  /\ thrown = FALSE
  /\ lastOp = Op("mount", Undefined)
  /\ pc = "idle"

\* a state update schedules a render, and the effect runs after it
rendered(s) ==
  \/ s.isOpen # isOpen
  \/ s.showAllItems # showAllItems
  \/ s.isFocused # isFocused
  \/ s.inputValue # inputValue
  \/ s.selectedKey # selectedKey
  \/ s.focusedKey # focusedKey

\* the call returns (or raises): its updates are committed
Return(s, op) ==
  /\ isOpen' = s.isOpen
  /\ showAllItems' = s.showAllItems
  /\ isFocused' = s.isFocused
  /\ inputValue' = s.inputValue
  /\ selectedKey' = s.selectedKey
  /\ focusedKey' = s.focusedKey
  /\ menuOpenTrigger' = s.menuOpenTrigger
  /\ lastValue' = s.lastValue
  /\ calls' = s.calls
  /\ thrown' = s.thrown
  /\ lastOp' = op
  /\ pc' = IF rendered(s) THEN "effect" ELSE "idle"
  /\ UNCHANGED props

Open(trigger) ==
  /\ pc = "idle"
  /\ Return(open(Cur, trigger), Op("open", trigger))

Toggle(trigger) ==
  /\ pc = "idle"
  /\ Return(toggle(Cur, trigger), Op("toggle", trigger))

Commit ==
  /\ pc = "idle"
  /\ Return(commit(Cur), Op("commit", Undefined))

\* close that is the close of the spread triggerState, not commit
close_OfTriggerState(s) == triggerStateClose(s)

\* line 285: close is commit
close(s) == commit(s)

Close ==
  /\ pc = "idle"
  /\ Return(close(Cur), Op("close", Undefined))

Revert ==
  /\ pc = "idle"
  /\ Return(revert(Cur), Op("revert", Undefined))

SetInputValue(value) ==
  /\ pc = "idle"
  /\ Return(setInputValue(Cur, value), Op("setInputValue", Undefined))

SetFocused(focused) ==
  /\ pc = "idle"
  /\ Return(setFocused(Cur, focused), Op("setFocused", Undefined))

SetSelectedKey(k) ==
  /\ pc = "idle"
  /\ Return(setSelectedKey(Cur, k), Op("setSelectedKey", Undefined))

Select(k) ==
  /\ pc = "idle"
  /\ Return(selectionManagerSelect(Cur, k), Op("select", Undefined))

\* selectionManager.setFocusedKey(key), called by the list box
SetFocusedKey(k) ==
  /\ pc = "idle"
  /\ Return([Cur EXCEPT !.focusedKey = k], Op("setFocusedKey", Undefined))

\* the owner of a controlled selectedKey renders the hook with a new value
OwnerSetsSelectedKey(k) ==
  /\ pc = "idle"
  /\ props.selectedKeyControlled
  /\ k # selectedKey
  /\ Return([Cur EXCEPT !.selectedKey = k], Op("props", Undefined))

\* the owner of a controlled inputValue renders the hook with a new value
OwnerSetsInputValue(value) ==
  /\ pc = "idle"
  /\ props.inputValueControlled
  /\ value # inputValue
  /\ Return([Cur EXCEPT !.inputValue = value], Op("props", Undefined))

\* the effect of lines 228-233, run after each render
RunEffect ==
  /\ pc = "effect"
  /\ focusedKey' = resetFocusedKeyEffect
  /\ pc' = "idle"
  /\ UNCHANGED <<props, isOpen, showAllItems, isFocused, inputValue,
                 selectedKey, menuOpenTrigger, lastValue, calls, thrown,
                 lastOp>>

Next ==
  \/ \E trigger \in Triggers : Open(trigger)
  \/ \E trigger \in Triggers : Toggle(trigger)
  \/ Commit
  \/ Close
  \/ Revert
  \/ \E value \in Queries : SetInputValue(value)
  \/ \E focused \in BOOLEAN : SetFocused(focused)
  \/ \E k \in NullableKeys : SetSelectedKey(k)
  \/ \E k \in itemKeys(props.collection) : Select(k)
  \/ \E k \in itemKeys(props.collection) \cup {Null} : SetFocusedKey(k)
  \/ \E k \in NullableKeys : OwnerSetsSelectedKey(k)
  \/ \E value \in Queries : OwnerSetsInputValue(value)
  \/ RunEffect

Spec == Init /\ [][Next]_vars

-----------------------------------------------------------------------------
(* The filter specification: every collection of at most MaxNodes nodes,   *)
(* sections of at most MaxChildren items, every predicate of FilterFns and *)
(* every query; the query is edited and the filtered collection of lines   *)
(* 181-186 is recomputed in every state.                                   *)

MaxNodes == 2
MaxChildren == 2

Texts == {"ab", "b"}

SeqsUpTo(S, n) == UNION {[1..m -> S] : m \in 0..n}

\* nodes before their keys are given
ItemShapes == {Leaf("", t) : t \in Texts}
SectionShapes == {Section("", kids) : kids \in SeqsUpTo(ItemShapes, MaxChildren)}

\* keys are unique across the tree: a node's key is its path
WithKeys(nodes, prefix) ==
  [i \in 1..Len(nodes) |->
     LET k == prefix \o ToString(i)
     IN [nodes[i] EXCEPT
           !.key = k,
           !.childNodes =
              [j \in 1..Len(@) |-> [@[j] EXCEPT !.key = k \o "." \o ToString(j)]]]]

BoundedCollections ==
  {WithKeys(shape, "n") :
     shape \in SeqsUpTo(ItemShapes \cup SectionShapes, MaxNodes)}

FilterProps ==
  [selectedKeyControlled : {FALSE},
   inputValueControlled : {FALSE},
   itemsControlled : {FALSE},
   hasOnSelectionChange : {TRUE},
   menuTrigger : {"input"},
   defaultFilter : FilterFns,
   collection : BoundedCollections]

FilterInit ==
  /\ props \in FilterProps
  /\ isOpen = FALSE
  /\ showAllItems = FALSE
  /\ isFocused = FALSE
  /\ inputValue = ""
  /\ selectedKey = Null
  /\ focusedKey = Null
  /\ menuOpenTrigger = "focus"
  /\ lastValue = inputValue
  /\ calls = <<>>
  /\ thrown = FALSE
  /\ lastOp = Op("mount", Undefined)
  /\ pc = "idle"

FilterNext ==
  \/ \E value \in Queries : SetInputValue(value)
  \/ RunEffect

FilterSpec == FilterInit /\ [][FilterNext]_vars

TypeOK ==
  /\ props \in Props
  /\ isOpen \in BOOLEAN
  /\ showAllItems \in BOOLEAN
  /\ isFocused \in BOOLEAN
  /\ inputValue \in Queries
  /\ selectedKey \in NullableKeys
  /\ focusedKey \in NullableKeys
  /\ menuOpenTrigger \in Triggers
  /\ thrown \in BOOLEAN
  /\ pc \in {"idle", "effect"}

-----------------------------------------------------------------------------
(* Vocabulary of the properties *)

\* the step is a call of the method `name` (methods are called at idle only)
Calls(name) == pc = "idle" /\ lastOp'.op = name

\* some entry / the number of entries of a call log for function fn
Has(log, fn) == \E i \in 1..Len(log) : log[i].fn = fn
HasKey(log, fn, k) == \E i \in 1..Len(log) : log[i].fn = fn /\ log[i].key = k
Count(log, fn) == Cardinality({i \in 1..Len(log) : log[i].fn = fn})

BothControlled == props.selectedKeyControlled /\ props.inputValueControlled
BothLocal == ~props.selectedKeyControlled /\ ~props.inputValueControlled

\* the step runs commitSelection directly: revert(), or commit() / close()
\* outside the case "open with a focused key that is not the selected key"
Finalizes ==
  /\ pc = "idle"
  /\ \/ lastOp'.op = "revert"
     \/ /\ lastOp'.op \in {"commit", "close"}
        /\ ~(isOpen /\ focusedKey # Null /\ focusedKey # selectedKey)

-----------------------------------------------------------------------------
(* C1 *)

\* C1: with inputValue and selectedKey both locally owned, the menu open and
\* a focused key B that is not the selected key, commit() ends with
\* selectedKey = B, inputValue = "" and isOpen = false.
C1_CommitSelectsFocusedKey ==
  [][(/\ Calls("commit")
      /\ BothLocal
      /\ isOpen
      /\ focusedKey # Null
      /\ focusedKey # selectedKey)
     => (/\ selectedKey' = focusedKey
         /\ inputValue' = ""
         /\ isOpen' = FALSE)]_vars

\* commit() has just selected the focused key k2 over a non-empty query
C1_Witness ==
  /\ lastOp.op = "commit"
  /\ BothLocal
  /\ selectedKey = "k2"
  /\ focusedKey = "k2"
  /\ HasKey(calls, "onSelectionChange", "k2")
  /\ Has(calls, "props.onInputChange")
  /\ Has(calls, "props.onOpenChange")
  /\ inputValue = ""
  /\ ~isOpen

-----------------------------------------------------------------------------
(* C2 *)

\* C2: once the effect that follows a render has run, a closed menu has no
\* focused key: every transition from open to closed, whatever method made
\* it, is followed by focusedKey being set to null.
C2_ClosedMenuHasNoFocusedKey ==
  (pc = "idle" /\ ~isOpen) => focusedKey = Null

\* commit() selected the focused key k1 and closed the menu, and the effect
\* has cleared the focused key
C2_Witness ==
  /\ pc = "idle"
  /\ lastOp.op = "commit"
  /\ HasKey(calls, "setSelectedKey", "k1")
  /\ Has(calls, "props.onOpenChange")
  /\ ~isOpen
  /\ focusedKey = Null

-----------------------------------------------------------------------------
(* C3 *)

\* the condition of the claim under which open(trigger) is suppressed
C3_Suppressed(trigger) ==
  /\ Len(filteredCollection) = 0
  /\ ~(/\ (trigger = "manual"
            \/ (trigger = "focus" /\ props.menuTrigger = "focus"))
       /\ Len(props.collection) > 0)
  /\ ~props.itemsControlled

\* C3: a suppressed open(), for every trigger, leaves isOpen, showAllItems,
\* the recorded trigger, inputValue, selectedKey and focusedKey unchanged and
\* calls nothing, the onOpenChange hook included.
C3_SuppressedOpenChangesNothing ==
  [][(Calls("open") /\ C3_Suppressed(lastOp'.trigger))
     => (/\ UNCHANGED <<isOpen, showAllItems, menuOpenTrigger, inputValue,
                        selectedKey, focusedKey, isFocused, lastValue>>
         /\ calls' = <<>>
         /\ thrown' = FALSE)]_vars

\* open(null, 'input') was suppressed: the query matches no item of a
\* non-empty collection
C3_Witness ==
  /\ pc = "idle"
  /\ lastOp = Op("open", "input")
  /\ C3_Suppressed("input")
  /\ Len(props.collection) > 0
  /\ inputValue = "x"
  /\ calls = <<>>
  /\ ~isOpen

-----------------------------------------------------------------------------
(* C4 *)

\* C4: with uncontrolled, non-empty items, a query that matches no item and
\* the menu closed, open(null, 'manual') opens the menu and the visible
\* collection is the full original collection.
C4_ManualOpenShowsAllItems ==
  [][(/\ Calls("open")
      /\ lastOp'.trigger = "manual"
      /\ ~props.itemsControlled
      /\ Len(props.collection) > 0
      /\ Len(filteredCollection) = 0
      /\ ~isOpen)
     => (isOpen' /\ visibleCollection' = props.collection)]_vars

\* the menu was opened manually over the query "x", which matches nothing
C4_Witness ==
  /\ lastOp = Op("open", "manual")
  /\ ~props.itemsControlled
  /\ inputValue = "x"
  /\ Len(filteredCollection) = 0
  /\ HasKey(calls, "props.onOpenChange", Null)
  /\ isOpen
  /\ visibleCollection = SectionedItems

-----------------------------------------------------------------------------
(* C5 *)

\* C5: showAllItems is reset to false on every close: after any transition of
\* the menu from open to closed, showAllItems is false.
C5_CloseResetsShowAllItems ==
  [][(isOpen /\ ~isOpen') => showAllItems' = FALSE]_vars

\* commit() closed a menu that had been opened showing all items
C5_Witness_StillShowingAll ==
  /\ lastOp.op = "commit"
  /\ Has(calls, "props.onOpenChange")
  /\ ~isOpen
  /\ showAllItems

-----------------------------------------------------------------------------
(* C6 *)

\* C6: the trigger reason is recorded only when the menu is closed: no call
\* made while the menu is open changes the recorded trigger.
C6_TriggerRecordedOnlyWhenClosed ==
  [][(pc = "idle" /\ isOpen) => menuOpenTrigger' = menuOpenTrigger]_vars

\* C6 as amended: toggle() records its trigger only when the menu is closed;
\* an open() that is not suppressed records its trigger whether the menu is
\* closed or already open; setFocused() changes the recorded trigger only to
\* 'focus', through open(); nothing else changes it.
C6_TriggerRecordedByOpenAndClosedToggle ==
  [][/\ Calls("toggle")
        => menuOpenTrigger' = (IF isOpen THEN menuOpenTrigger
                               ELSE lastOp'.trigger)
     /\ Calls("open")
        => menuOpenTrigger' = (IF C3_Suppressed(lastOp'.trigger)
                               THEN menuOpenTrigger
                               ELSE lastOp'.trigger)
     /\ Calls("setFocused") => menuOpenTrigger' \in {menuOpenTrigger, "focus"}
     /\ lastOp'.op \notin {"toggle", "open", "setFocused"}
        => menuOpenTrigger' = menuOpenTrigger]_vars

\* open(null, 'manual') was called on a menu already open (onOpenChange was
\* not called) and the recorded trigger is now 'manual'
C6_Witness ==
  /\ pc = "idle"
  /\ lastOp = Op("open", "manual")
  /\ Has(calls, "triggerState.open")
  /\ ~Has(calls, "props.onOpenChange")
  /\ isOpen
  /\ menuOpenTrigger = "manual"

-----------------------------------------------------------------------------
(* C7 *)

\* C7: with selectedKey and inputValue both controlled, commitSelection
\* notifies props.onSelectionChange with the current selected key, records
\* the selected item's text as the last value, closes the menu, and neither
\* changes inputValue nor asks for a reset through props.onInputChange.
C7_ControlledFinalize ==
  [][(Finalizes /\ BothControlled)
     => (/\ props.hasOnSelectionChange
              => HasKey(calls', "props.onSelectionChange", selectedKey)
         /\ lastValue' = itemTextValue(props.collection, selectedKey)
         /\ isOpen' = FALSE
         /\ inputValue' = inputValue
         /\ ~Has(calls', "resetInputValue")
         /\ ~Has(calls', "props.onInputChange"))]_vars

-----------------------------------------------------------------------------
(* C8 *)

\* C8: when selectedKey or inputValue is locally owned, commitSelection ends
\* with inputValue = "" and isOpen = false and does not call
\* props.onSelectionChange.
C8_FinalizeResetsQuery ==
  [][(Finalizes /\ ~BothControlled)
     => (/\ inputValue' = ""
         /\ isOpen' = FALSE
         /\ ~Has(calls', "props.onSelectionChange"))]_vars

\* C8 as amended: when selectedKey or inputValue is locally owned,
\* commitSelection closes the menu and does not call props.onSelectionChange;
\* a locally owned inputValue is then "", a controlled inputValue is left to
\* its owner, who is asked for "" through props.onInputChange when it is not
\* empty.
C8_FinalizeResetsLocalQuery ==
  [][(Finalizes /\ ~BothControlled)
     => (/\ isOpen' = FALSE
         /\ ~Has(calls', "props.onSelectionChange")
         /\ ~props.inputValueControlled => inputValue' = ""
         /\ props.inputValueControlled
              => /\ inputValue' = inputValue
                 /\ inputValue # ""
                      => \E i \in 1..Len(calls') :
                           /\ calls'[i].fn = "props.onInputChange"
                           /\ calls'[i].text = "")]_vars

\* revert() closed an open menu while the owner of inputValue keeps "a"
C8_Witness ==
  /\ lastOp.op = "revert"
  /\ props.inputValueControlled
  /\ ~props.selectedKeyControlled
  /\ inputValue = "a"
  /\ Has(calls, "props.onInputChange")
  /\ Has(calls, "props.onOpenChange")
  /\ ~isOpen

-----------------------------------------------------------------------------
(* C9 *)

\* C9: commit() on an open menu whose focused key is the selected key does
\* not call props.onSelectionChange, in every configuration.
C9_CommitOfSelectedKeyIsSilent ==
  [][(/\ Calls("commit")
      /\ isOpen
      /\ focusedKey # Null
      /\ focusedKey = selectedKey)
     => ~Has(calls', "props.onSelectionChange")]_vars

\* C9 as amended: commit() on an open menu whose focused key is the selected
\* key runs commitSelection and no selection change is requested or reported
\* by the selection state; props.onSelectionChange is not called when
\* selectedKey or inputValue is locally owned, and is called once, with the
\* selected key, by commitSelection when both are controlled and the hook is
\* supplied.
C9_CommitOfSelectedKeyFinalizes ==
  [][(/\ Calls("commit")
      /\ isOpen
      /\ focusedKey # Null
      /\ focusedKey = selectedKey)
     => (/\ Has(calls', "commitSelection")
         /\ ~Has(calls', "setSelectedKey")
         /\ ~Has(calls', "onSelectionChange")
         /\ ~BothControlled => ~Has(calls', "props.onSelectionChange")
         /\ (BothControlled /\ props.hasOnSelectionChange)
              => /\ Count(calls', "props.onSelectionChange") = 1
                 /\ HasKey(calls', "props.onSelectionChange", selectedKey))]_vars

\* commit() on the focused and selected key k1 with both values controlled:
\* commitSelection called the hook with k1
C9_Witness ==
  /\ pc = "effect"
  /\ lastOp.op = "commit"
  /\ BothControlled
  /\ selectedKey = "k1"
  /\ focusedKey = "k1"
  /\ Has(calls, "commitSelection")
  /\ HasKey(calls, "props.onSelectionChange", "k1")
  /\ ~isOpen

-----------------------------------------------------------------------------
(* C10 *)

\* C10: every selection-change notification, from any cause and in every
\* configuration, ends with inputValue = "" and isOpen = false.
C10_SelectionChangeResetsAndCloses ==
  [][(pc = "idle" /\ Has(calls', "onSelectionChange"))
     => (inputValue' = "" /\ isOpen' = FALSE)]_vars

\* C10 as amended: every selection-change notification asks for the reset of
\* the query and closes the menu: isOpen = false afterwards in every
\* configuration, a locally owned inputValue is "", and a controlled
\* inputValue is left to its owner, who is asked for "" through
\* props.onInputChange when it is not empty.
C10_SelectionChangeClosesAndResetsLocalQuery ==
  [][(pc = "idle" /\ Has(calls', "onSelectionChange"))
     => (/\ isOpen' = FALSE
         /\ Has(calls', "resetInputValue")
         /\ ~props.inputValueControlled => inputValue' = ""
         /\ props.inputValueControlled
              => /\ inputValue' = inputValue
                 /\ inputValue # ""
                      => \E i \in 1..Len(calls') :
                           /\ calls'[i].fn = "props.onInputChange"
                           /\ calls'[i].text = "")]_vars

\* setSelectedKey(k2) on an open menu reported the change and closed the
\* menu, while the owner of inputValue keeps "a"
C10_Witness ==
  /\ lastOp.op = "setSelectedKey"
  /\ props.inputValueControlled
  /\ HasKey(calls, "onSelectionChange", "k2")
  /\ Has(calls, "props.onInputChange")
  /\ Has(calls, "props.onOpenChange")
  /\ inputValue = "a"
  /\ ~isOpen

-----------------------------------------------------------------------------
(* C11 *)

\* C11: revert() resets the input value to the selected item's text, if
\* there is one, and closes the menu.
C11_RevertRestoresSelectedText ==
  [][(Calls("revert") /\ selectedKey \in itemKeys(props.collection))
     => (/\ inputValue' = itemTextValue(props.collection, selectedKey)
         /\ isOpen' = FALSE)]_vars

\* revert() with the item k1 ("ab") selected left an empty input value
C11_Witness_RevertEmptiesInput ==
  /\ lastOp.op = "revert"
  /\ BothLocal
  /\ selectedKey = "k1"
  /\ Has(calls, "props.onInputChange")
  /\ inputValue = ""
  /\ ~isOpen

-----------------------------------------------------------------------------
(* C12 *)

\* the state and the calls commit() would end with were it called now
SameAsCommit ==
  LET s == commit(Cur)
  IN /\ isOpen' = s.isOpen
     /\ showAllItems' = s.showAllItems
     /\ isFocused' = s.isFocused
     /\ inputValue' = s.inputValue
     /\ selectedKey' = s.selectedKey
     /\ focusedKey' = s.focusedKey
     /\ menuOpenTrigger' = s.menuOpenTrigger
     /\ lastValue' = s.lastValue
     /\ calls' = s.calls
     /\ thrown' = s.thrown

\* C12: close() is commit(): same resulting state and same calls from every
\* state, and close() on an open menu with a focused key that is not the
\* selected key leaves the selected key equal to the focused key.
C12_CloseIsCommitAndSelects ==
  [][Calls("close")
     => (/\ SameAsCommit
         /\ (isOpen /\ focusedKey # Null /\ focusedKey # selectedKey)
              => selectedKey' = focusedKey)]_vars

\* C12 as amended: close() is commit(): same resulting state and same calls
\* from every state; close() on an open menu with a focused key that is not
\* the selected key calls setSelectedKey(focusedKey), which sets a locally
\* owned selected key to the focused key and reports the focused key to the
\* owner of a controlled one.
C12_CloseIsCommit ==
  [][Calls("close")
     => (/\ SameAsCommit
         /\ (isOpen /\ focusedKey # Null /\ focusedKey # selectedKey)
              => /\ HasKey(calls', "setSelectedKey", focusedKey)
                 /\ HasKey(calls', "onSelectionChange", focusedKey)
                 /\ ~props.selectedKeyControlled
                      => selectedKey' = focusedKey
                 /\ props.selectedKeyControlled
                      => selectedKey' = selectedKey)]_vars

\* close() on an open menu selected the focused key k2
C12_Witness ==
  /\ lastOp.op = "close"
  /\ ~props.selectedKeyControlled
  /\ selectedKey = "k2"
  /\ focusedKey = "k2"
  /\ HasKey(calls, "setSelectedKey", "k2")
  /\ Has(calls, "props.onOpenChange")
  /\ ~isOpen

-----------------------------------------------------------------------------
(* C13 *)

\* C13: when items are externally supplied the query never filters them: in
\* every reachable state the visible collection is the supplied collection.
C13_ControlledItemsAreNotFiltered ==
  props.itemsControlled => visibleCollection = props.collection

\* controlled items, a defaultFilter and the query "x", which matches no
\* item: the open menu shows the supplied collection
C13_Witness ==
  /\ props.itemsControlled
  /\ props.defaultFilter = "contains"
  /\ props.collection = SectionedItems
  /\ inputValue = "x"
  /\ isOpen
  /\ visibleCollection = SectionedItems

-----------------------------------------------------------------------------
(* C14 *)

\* the predicate matches every text on the empty query
MatchesAllOnEmptyQuery(filterFn) == \A t \in Texts : filter(filterFn, t, "")

IsEmptySection(node) == node.type = "section" /\ Len(node.childNodes) = 0

\* C14: with a predicate that matches every text on the empty query and
\* query = "", the derived collection equals the original collection, for
\* every uncontrolled collection, sections without children included.
C14_EmptyQueryIdentity ==
  (inputValue = "" /\ MatchesAllOnEmptyQuery(props.defaultFilter))
    => filteredCollection = props.collection

\* C14 as amended: with a predicate that matches every text on the empty
\* query and query = "", the derived collection is the original collection
\* without its sections that have no children; it equals the original
\* collection when every section has a child.
C14_EmptyQueryKeepsAllButEmptySections ==
  (inputValue = "" /\ MatchesAllOnEmptyQuery(props.defaultFilter))
    => /\ filteredCollection =
            SelectSeq(props.collection, LAMBDA n : ~IsEmptySection(n))
       /\ (\A i \in 1..Len(props.collection) :
             ~IsEmptySection(props.collection[i]))
            => filteredCollection = props.collection

\* the query was edited and emptied again over a collection of a section
\* with two items and an item; the derived collection is the original one
C14_Witness ==
  /\ lastOp.op = "setInputValue"
  /\ inputValue = ""
  /\ props.defaultFilter = "startsWith"
  /\ Len(props.collection) = 2
  /\ props.collection[1].type = "section"
  /\ Len(props.collection[1].childNodes) = 2
  /\ props.collection[2].type = "item"
  /\ filteredCollection = props.collection

-----------------------------------------------------------------------------
(* C15 *)

\* an item that satisfies the predicate
C15_Matches(node) ==
  /\ node.type = "item"
  /\ filter(props.defaultFilter, node.textValue, inputValue)

\* a section with an item that satisfies the predicate
C15_HasMatch(node) ==
  /\ node.type = "section"
  /\ \E j \in 1..Len(node.childNodes) : C15_Matches(node.childNodes[j])

\* the original collection pruned as the claim says
C15_Pruned ==
  LET kept == SelectSeq(props.collection,
                        LAMBDA n : C15_Matches(n) \/ C15_HasMatch(n))
  IN [i \in 1..Len(kept) |->
        IF kept[i].type = "section"
        THEN [kept[i] EXCEPT !.childNodes = SelectSeq(@, C15_Matches)]
        ELSE kept[i]]

\* C15: filterNodes keeps a section exactly when one of its items satisfies
\* the predicate, with only its matching items in their original order, and
\* keeps an item exactly when the predicate is true for it.
C15_SectionPruning ==
  filterNodes(props.collection, inputValue, props.defaultFilter) = C15_Pruned

\* the query "a" over a section of the items "ab" and "b" followed by a
\* section of "b" only: the first section is kept with "ab" alone, the second
\* section is dropped
C15_Witness ==
  /\ lastOp.op = "setInputValue"
  /\ inputValue = "a"
  /\ props.defaultFilter = "contains"
  /\ Len(props.collection) = 2
  /\ props.collection[1].type = "section"
  /\ Len(props.collection[1].childNodes) = 2
  /\ props.collection[1].childNodes[1].textValue = "ab"
  /\ props.collection[1].childNodes[2].textValue = "b"
  /\ props.collection[2].type = "section"
  /\ Len(props.collection[2].childNodes) = 1
  /\ props.collection[2].childNodes[1].textValue = "b"
  /\ Len(filteredCollection) = 1
  /\ Len(filteredCollection[1].childNodes) = 1
  /\ filteredCollection[1].childNodes[1].textValue = "ab"

-----------------------------------------------------------------------------
(* C16 *)

\* C16: every method of the controller is total: in every configuration of
\* the optional hooks no call raises an error.
C16_NoMethodThrows == thrown = FALSE

\* revert() raised on an open menu, which stays open
C16_Witness_RevertThrew ==
  /\ lastOp.op = "revert"
  /\ thrown
  /\ BothControlled
  /\ ~props.hasOnSelectionChange
  /\ isOpen

-----------------------------------------------------------------------------
(* C17 *)

FnNames(log) == [i \in 1..Len(log) |-> log[i].fn]

\* C17: a commit() that changes the selection (menu open, focused key not the
\* selected key) makes its calls in this order: setSelectedKey(focused key),
\* the selection-change notification with props.onSelectionChange(focused
\* key) when the hook is supplied, the reset of the input value, the close of
\* the menu; commitSelection is not called.
C17_CommitOrder ==
  [][(/\ Calls("commit")
      /\ isOpen
      /\ focusedKey # Null
      /\ focusedKey # selectedKey)
     => (/\ FnNames(calls') =
              <<"setSelectedKey", "onSelectionChange">>
              \o (IF props.hasOnSelectionChange
                  THEN <<"props.onSelectionChange">> ELSE <<>>)
              \o <<"resetInputValue">>
              \o (IF inputValue # "" THEN <<"props.onInputChange">> ELSE <<>>)
              \o <<"triggerState.close", "props.onOpenChange">>
         /\ calls'[1].key = focusedKey
         /\ calls'[2].key = focusedKey
         /\ props.hasOnSelectionChange => calls'[3].key = focusedKey
         /\ ~Has(calls', "commitSelection"))]_vars

\* commit() selected the focused key k1 over the query "a", with the hook
\* supplied: all seven calls were made
C17_Witness ==
  /\ pc = "effect"
  /\ lastOp.op = "commit"
  /\ props.hasOnSelectionChange
  /\ focusedKey = "k1"
  /\ Len(calls) = 7
  /\ calls[1].fn = "setSelectedKey"
  /\ calls[3] = Call("props.onSelectionChange", "k1", "", FALSE, Undefined)
  /\ calls[7].fn = "props.onOpenChange"
  /\ ~isOpen

-----------------------------------------------------------------------------
(* C18 *)

\* C18: showAllItems becomes true only through an accepted open() whose
\* trigger is 'manual', or 'focus' with menuTrigger 'focus' (called directly
\* or by setFocused(true)), made while the menu is closed and with items not
\* externally supplied.
C18_ShowAllOnlyByDisplayAllOpen ==
  [][(~showAllItems /\ showAllItems')
     => (/\ pc = "idle"
         /\ ~isOpen
         /\ isOpen'
         /\ ~props.itemsControlled
         /\ \/ /\ lastOp'.op = "open"
               /\ \/ lastOp'.trigger = "manual"
                  \/ lastOp'.trigger = "focus" /\ props.menuTrigger = "focus"
            \/ /\ lastOp'.op = "setFocused"
               /\ props.menuTrigger = "focus"
               /\ isFocused'
               /\ menuOpenTrigger' = "focus")]_vars

\* setFocused(true) with menuTrigger 'focus' opened the menu showing all
\* items, over a query that matches nothing
C18_Witness ==
  /\ lastOp.op = "setFocused"
  /\ props.menuTrigger = "focus"
  /\ props.defaultFilter = "contains"
  /\ ~props.itemsControlled
  /\ inputValue = "x"
  /\ HasKey(calls, "props.onOpenChange", Null)
  /\ isFocused
  /\ isOpen
  /\ showAllItems

-----------------------------------------------------------------------------
(* C19 *)

\* C19: after commit(), revert() or close() the menu is closed, from every
\* reachable state and in every configuration.
C19_CommitRevertCloseCloseTheMenu ==
  [][(pc = "idle" /\ lastOp'.op \in {"commit", "revert", "close"})
     => isOpen' = FALSE]_vars

\* commit() raised with nothing focused and left the menu open
C19_Witness_CommitLeftMenuOpen ==
  /\ lastOp.op = "commit"
  /\ thrown
  /\ focusedKey = Null
  /\ isOpen

-----------------------------------------------------------------------------
(* C20 *)

\* C20: toggle() has no empty-collection guard: on a closed menu it always
\* opens the menu and records its trigger, on an open menu it closes the
\* menu and leaves the recorded trigger; it never changes showAllItems.
C20_ToggleIsUnguarded ==
  [][Calls("toggle")
     => (/\ isOpen' = ~isOpen
         /\ menuOpenTrigger' = (IF isOpen THEN menuOpenTrigger
                                ELSE lastOp'.trigger)
         /\ showAllItems' = showAllItems
         /\ \E i \in 1..Len(calls') :
              /\ calls'[i].fn = "props.onOpenChange"
              /\ calls'[i].open = ~isOpen)]_vars

\* toggle(null, 'manual') opened the menu over an empty, uncontrolled
\* collection without showing all items
C20_Witness ==
  /\ lastOp = Op("toggle", "manual")
  /\ props.collection = EmptyItems
  /\ ~props.itemsControlled
  /\ isOpen
  /\ menuOpenTrigger = "manual"
  /\ ~showAllItems

====
